---- MODULE Spec2Model ----
(***************************************************************************)
(* A model of the two tutorial notebooks of python_tutorials:              *)
(*   - decorators.ipynb: timer, log_result, describe_as and the Robot      *)
(*     command registry, run cell by cell in one interpreter session;      *)
(*   - the exceptions notebook: imported_function and the three            *)
(*     user_function variants that translate SuperConfusingError.          *)
(* A function object lives on a heap and is named by its index, so that    *)
(* "the very same function object" is equality of indices.  A call is      *)
(* evaluated in one step by Invoke, which returns the trace of events      *)
(* (call, print, return, raise) the call produces, in order.               *)
(***************************************************************************)
EXTENDS Integers, Sequences, FiniteSets, TLC

VARIABLES heap,       \* the function objects created so far, by index
          globals,    \* the session's global names: name -> heap index, 0 unbound
          timerDef,   \* which definition of timer is bound: plain, flag, wraps
          logDef,     \* which definition of log_result is bound: plain, wraps
          USE_TIMER,  \* the module-level flag the flag variant of timer reads
          commands,   \* Robot.commands: name -> heap index, 0 when absent
          latest,     \* history: the function last passed to register_command, by name
          inp,        \* the line of text input() returns
          cell        \* what the most recently executed cell did

vars == <<heap, globals, timerDef, logDef, USE_TIMER, commands, latest, inp, cell>>

(***************************************************************************)
(* Bounds of the model.                                                    *)
(***************************************************************************)
MaxObjs == 3        \* function objects a decorator session creates
MaxJitter == 1      \* seconds a call may take beyond what it sleeps
MaxDraws == 2       \* distinct values random.randint is seen to return
MaxRobotObjs == 3   \* function objects a robot session creates
MaxInputLen == 3    \* characters in a line of input

(***************************************************************************)
(* Python values.  Every value is a record of the same shape, so that two  *)
(* values of different Python types can be compared.                       *)
(***************************************************************************)
None == [t |-> "None", v |-> 0]
IntVal(n) == [t |-> "int", v |-> n]
FuncVal(id) == [t |-> "function", v |-> id]

\* An exception: its class, the function that raised it (0: not a function
\* on the heap), its argument, and its __cause__, __context__ (a sequence
\* of none or one exception) and __suppress_context__.
NoExc == [type |-> "", origin |-> 0, arg |-> "", cause |-> <<>>,
          context |-> <<>>, suppress |-> FALSE]
Exc(type, origin) == [NoExc EXCEPT !.type = type, !.origin = origin]
ExcArg(type, arg) == [NoExc EXCEPT !.type = type, !.arg = arg]

\* An argument list: the positional arguments and the keyword arguments.
Args(pos, kw) == [pos |-> pos, kw |-> kw]
NoArgs == Args(<<>>, {})

(***************************************************************************)
(* Printed lines.                                                          *)
(***************************************************************************)
NoLine == [tmpl |-> "", name |-> "", ref |-> 0, dur |-> 0, val |-> None,
           art |-> "", adj |-> <<>>]
\* f'Running {func.__name__} took {duration} seconds.'
TookLine(name, dur) == [NoLine EXCEPT !.tmpl = "took", !.name = name, !.dur = dur]
\* f'Running {func} took {duration} seconds.': the function's repr, not its name
TookReprLine(ref, dur) == [NoLine EXCEPT !.tmpl = "took", !.ref = ref, !.dur = dur]
\* f'{func.__name__} returned {value}.'
ReturnedLine(name, val) == [NoLine EXCEPT !.tmpl = "returned", !.name = name, !.val = val]
\* f'{func.__name__} is {article} {adjective} function.'
IsLine(name, art, adj) == [NoLine EXCEPT !.tmpl = "is", !.name = name, !.art = art, !.adj = adj]

(***************************************************************************)
(* Events of a call, in the order they happen.                             *)
(***************************************************************************)
NoEvent == [ev |-> "", fn |-> 0, args |-> NoArgs, val |-> None, exc |-> NoExc,
            line |-> NoLine]
CallEv(fn, args) == [NoEvent EXCEPT !.ev = "call", !.fn = fn, !.args = args]
ReturnEv(fn, val) == [NoEvent EXCEPT !.ev = "return", !.fn = fn, !.val = val]
RaiseEv(fn, exc) == [NoEvent EXCEPT !.ev = "raise", !.fn = fn, !.exc = exc]
PrintEv(fn, line) == [NoEvent EXCEPT !.ev = "print", !.fn = fn, !.line = line]

\* The outcome of a call: its events, whether it returned or raised, and the
\* wall-clock time it took.
Returned(events, val, elapsed) ==
    [events |-> events, outcome |-> "return", value |-> val, exc |-> NoExc,
     elapsed |-> elapsed]
Raised(events, exc, elapsed) ==
    [events |-> events, outcome |-> "raise", value |-> None, exc |-> exc,
     elapsed |-> elapsed]

(***************************************************************************)
(* Function objects.                                                       *)
(***************************************************************************)
\* The functions the notebook defines with def and then decorates.
FuncDefs == {"slow_add", "slow_random_number", "does_nothing"}

Params(name) ==
    CASE name = "slow_add" -> <<"x", "y">>
      [] OTHER -> <<>>

\* A function made by a def statement; code names the def it was made from.
DefObject(name) ==
    [kind |-> "def", name |-> name, code |-> name, func |-> 0,
     art |-> "", adj |-> <<>>]
\* A closure new_func: func is its captured variable.
Closure(kind, name, func) ==
    [kind |-> kind, name |-> name, code |-> "new_func", func |-> func,
     art |-> "", adj |-> <<>>]

Alloc(h, obj) == [heap |-> Append(h, obj), id |-> Len(h) + 1]

(***************************************************************************)
(* Calling a function made by def.                                         *)
(***************************************************************************)
\* random.randint(1, 10)
RandLo == 1
RandHi == 10
\* time.sleep(3) in slow_random_number
RandomSleep == 3

\* What a call cannot control: how long it runs beyond its sleep, and what
\* random.randint returns.
Min(a, b) == IF a < b THEN a ELSE b
Envs == [jitter : 0..MaxJitter, rnd : RandLo..Min(RandHi, RandLo + MaxDraws - 1)]

KwNames(args) == {p[1] : p \in args.kw}
KwValue(args, name) == (CHOOSE p \in args.kw : p[1] = name)[2]

\* Python's binding of an argument list to a parameter list: positional
\* arguments fill the parameters from the left, keyword arguments by name;
\* an extra, repeated, unknown or missing argument is a TypeError.
BindsTo(params, args) ==
    /\ Len(args.pos) <= Len(params)
    /\ \A k \in KwNames(args) :
          \E i \in (Len(args.pos) + 1)..Len(params) : params[i] = k
    /\ \A i \in (Len(args.pos) + 1)..Len(params) : params[i] \in KwNames(args)

ArgValue(params, args, name) ==
    LET i == CHOOSE j \in 1..Len(params) : params[j] = name
    IN  IF i <= Len(args.pos) THEN args.pos[i] ELSE KwValue(args, name)

\* def slow_add(x, y): result = x + y; time.sleep(result); return result
\* time.sleep raises ValueError for a negative length.
slow_add(id, args, env) ==
    LET result == ArgValue(<<"x", "y">>, args, "x") + ArgValue(<<"x", "y">>, args, "y")
    IN  IF result < 0
        THEN Raised(<<CallEv(id, args), RaiseEv(id, Exc("ValueError", id))>>,
                    Exc("ValueError", id), env.jitter)
        ELSE Returned(<<CallEv(id, args), ReturnEv(id, IntVal(result))>>,
                      IntVal(result), result + env.jitter)

\* def slow_random_number(): time.sleep(3); return random.randint(1, 10)
slow_random_number(id, args, env) ==
    Returned(<<CallEv(id, args), ReturnEv(id, IntVal(env.rnd))>>,
             IntVal(env.rnd), RandomSleep + env.jitter)

\* def does_nothing(): pass
does_nothing(id, args, env) ==
    Returned(<<CallEv(id, args), ReturnEv(id, None)>>, None, env.jitter)

\* A call of a def-made function: the arguments are bound, then the body runs.
CallDef(h, id, args, env) ==
    LET f == h[id]
    IN  IF ~BindsTo(Params(f.code), args)
        THEN Raised(<<CallEv(id, args), RaiseEv(id, Exc("TypeError", id))>>,
                    Exc("TypeError", id), env.jitter)
        ELSE CASE f.code = "slow_add" -> slow_add(id, args, env)
               [] f.code = "slow_random_number" -> slow_random_number(id, args, env)
               [] OTHER -> does_nothing(id, args, env)

(***************************************************************************)
(* Calling a closure new_func.                                             *)
(***************************************************************************)
RECURSIVE Invoke(_, _, _, _)

\* A timer whose new_func forgets **kwargs.
timer_new_func_drops_kwargs(h, id, args, env) ==
    LET func == h[id].func
        r == Invoke(h, func, Args(args.pos, {}), env)
        line == TookLine(h[func].name, r.elapsed)
    IN  IF r.outcome = "raise"
        THEN Raised(<<CallEv(id, args)>> \o r.events \o <<RaiseEv(id, r.exc)>>,
                    r.exc, r.elapsed)
        ELSE Returned(<<CallEv(id, args)>> \o r.events
                          \o <<PrintEv(id, line), ReturnEv(id, r.value)>>,
                      r.value, r.elapsed)

\* timer's new_func: start = time.time(); value = func(*args, **kwargs);
\* duration = time.time() - start; print(...); return value.
\* An exception of func leaves new_func at the call, before the print.
timer_new_func(h, id, args, env) ==
    LET func == h[id].func
        r == Invoke(h, func, args, env)
        duration == r.elapsed
        line == IF h[id].kind = "timer_flag"
                THEN TookReprLine(func, duration)
                ELSE TookLine(h[func].name, duration)
    IN  IF r.outcome = "raise"
        THEN Raised(<<CallEv(id, args)>> \o r.events \o <<RaiseEv(id, r.exc)>>,
                    r.exc, r.elapsed)
        ELSE Returned(<<CallEv(id, args)>> \o r.events
                          \o <<PrintEv(id, line), ReturnEv(id, r.value)>>,
                      r.value, r.elapsed)

\* A log_result whose new_func reports in a finally block.
log_result_new_func_finally(h, id, args, env) ==
    LET func == h[id].func
        r == Invoke(h, func, args, env)
        line == PrintEv(id, ReturnedLine(h[func].name, r.value))
    IN  IF r.outcome = "raise"
        THEN Raised(<<CallEv(id, args)>> \o r.events \o <<line, RaiseEv(id, r.exc)>>,
                    r.exc, r.elapsed)
        ELSE Returned(<<CallEv(id, args)>> \o r.events \o <<line, ReturnEv(id, r.value)>>,
                      r.value, r.elapsed)

\* A log_result whose new_func forgets to return the value.
log_result_new_func_returns_none(h, id, args, env) ==
    LET func == h[id].func
        r == Invoke(h, func, args, env)
    IN  IF r.outcome = "raise"
        THEN Raised(<<CallEv(id, args)>> \o r.events \o <<RaiseEv(id, r.exc)>>,
                    r.exc, r.elapsed)
        ELSE Returned(<<CallEv(id, args)>> \o r.events
                          \o <<PrintEv(id, ReturnedLine(h[func].name, r.value)),
                               ReturnEv(id, None)>>,
                      None, r.elapsed)

\* log_result's new_func: value = func(*args, **kwargs); print(...); return value
log_result_new_func(h, id, args, env) ==
    LET func == h[id].func
        r == Invoke(h, func, args, env)
    IN  IF r.outcome = "raise"
        THEN Raised(<<CallEv(id, args)>> \o r.events \o <<RaiseEv(id, r.exc)>>,
                    r.exc, r.elapsed)
        ELSE Returned(<<CallEv(id, args)>> \o r.events
                          \o <<PrintEv(id, ReturnedLine(h[func].name, r.value)),
                               ReturnEv(id, r.value)>>,
                      r.value, r.elapsed)

\* A describe_as whose new_func prints after the call.
describe_new_func_prints_after(h, id, args, env) ==
    LET func == h[id].func
        r == Invoke(h, func, args, env)
        line == PrintEv(id, IsLine(h[func].name, h[id].art, h[id].adj))
    IN  IF r.outcome = "raise"
        THEN Raised(<<CallEv(id, args)>> \o r.events \o <<RaiseEv(id, r.exc)>>,
                    r.exc, r.elapsed)
        ELSE Returned(<<CallEv(id, args)>> \o r.events \o <<line, ReturnEv(id, r.value)>>,
                      r.value, r.elapsed)

\* describe_as's new_func: print(...); return func(*args, **kwargs)
describe_new_func(h, id, args, env) ==
    LET func == h[id].func
        r == Invoke(h, func, args, env)
        line == PrintEv(id, IsLine(h[func].name, h[id].art, h[id].adj))
    IN  IF r.outcome = "raise"
        THEN Raised(<<CallEv(id, args), line>> \o r.events \o <<RaiseEv(id, r.exc)>>,
                    r.exc, r.elapsed)
        ELSE Returned(<<CallEv(id, args), line>> \o r.events \o <<ReturnEv(id, r.value)>>,
                      r.value, r.elapsed)

TimerKinds == {"timer", "timer_flag"}

\* Calling the function object h[id] with args.
Invoke(h, id, args, env) ==
    CASE h[id].kind = "def" -> CallDef(h, id, args, env)
      [] h[id].kind \in TimerKinds -> timer_new_func(h, id, args, env)
      [] h[id].kind = "log_result" -> log_result_new_func(h, id, args, env)
      [] OTHER -> describe_new_func(h, id, args, env)

\* Every way a call of h[id] with args can go.
Outcomes(h, id, args) == {Invoke(h, id, args, env) : env \in Envs}

(***************************************************************************)
(* The decorators: what timer(func), log_result(func) and                  *)
(* describe_as(adjective)(func) return.                                    *)
(***************************************************************************)
\* A wraps that leaves new_func its own name.
wraps_keeps_new_func(h, func) == "new_func"

\* functools.wraps(func) gives new_func the name of func.
wraps(h, func) == h[func].name

\* A timer that returns func instead of new_func.
timer_returns_func(h, func) == [heap |-> h, id |-> func]

\* timer as first defined: the closure keeps the name new_func.
timer_plain(h, func) == Alloc(h, Closure("timer", "new_func", func))

\* A timer that wraps whatever USE_TIMER is.
timer_flag_ignored(h, func, useTimer) ==
    Alloc(h, Closure("timer_flag", "new_func", func))

\* timer with USE_TIMER: the flag is read when timer is applied, and func
\* itself is returned when it is off.
timer_flag(h, func, useTimer) ==
    IF ~useTimer
    THEN [heap |-> h, id |-> func]
    ELSE Alloc(h, Closure("timer_flag", "new_func", func))

\* timer with functools.wraps
timer_wraps(h, func) == Alloc(h, Closure("timer", wraps(h, func), func))

timer(h, func, def, useTimer) ==
    CASE def = "plain" -> timer_plain(h, func)
      [] def = "flag" -> timer_flag(h, func, useTimer)
      [] OTHER -> timer_wraps(h, func)

log_result_plain(h, func) == Alloc(h, Closure("log_result", "new_func", func))

log_result_wraps(h, func) == Alloc(h, Closure("log_result", wraps(h, func), func))

log_result(h, func, def) ==
    IF def = "plain" THEN log_result_plain(h, func) ELSE log_result_wraps(h, func)

Vowels == {"a", "e", "i", "o", "u"}

\* describe_as(adjective) indexes adjective[0]: an IndexError on ''.
describe_as_raises(adjective) == Len(adjective) = 0

\* article = 'an' if adjective[0] in ('a', 'e', 'i', 'o', 'u') else 'a'
article(adjective) == IF adjective[1] \in Vowels THEN "an" ELSE "a"

\* The decorator that describe_as(adjective) returns, applied to func.
describe_decorator(h, func, adjective) ==
    Alloc(h, [Closure("describe_as", wraps(h, func), func)
                 EXCEPT !.art = article(adjective), !.adj = adjective])

(***************************************************************************)
(* The decorator session: cells of decorators.ipynb run in any order.      *)
(***************************************************************************)
\* A decorator expression after @: timer, log_result or describe_as(adj).
Dec(dec, adj) == [dec |-> dec, adj |-> adj]

boring == <<"b", "o", "r", "i", "n", "g">>
annoying == <<"a", "n", "n", "o", "y", "i", "n", "g">>
Odd == <<"O", "d", "d">>
Adjectives == {<<>>, boring, annoying, Odd}

\* The argument lists a cell calls a function with.
ArgLists == {NoArgs, Args(<<2, 3>>, {}), Args(<<2>>, {<<"y", 3>>}),
             Args(<<-2, 1>>, {})}

NoCell == [kind |-> "none", name |-> "", decs |-> <<>>, target |-> 0,
           args |-> NoArgs, events |-> <<>>, outcome |-> "", value |-> None,
           exc |-> NoExc]

\* Evaluating a decorator expression raises only for describe_as('').
DecRaises(d) == d.dec = "describe_as" /\ describe_as_raises(d.adj)

\* dec(func) under the definitions of timer and log_result now bound.
ApplyDec(h, func, d, tdef, ldef, useTimer) ==
    CASE d.dec = "timer" -> timer(h, func, tdef, useTimer)
      [] d.dec = "log_result" -> log_result(h, func, ldef)
      [] OTHER -> describe_decorator(h, func, d.adj)

\* Stacked decorators are applied from the bottom line up.
RECURSIVE ApplyDecs(_, _, _, _, _, _)
ApplyDecs(h, func, decs, tdef, ldef, useTimer) ==
    IF decs = <<>>
    THEN [heap |-> h, id |-> func]
    ELSE LET inner == ApplyDecs(h, func, Tail(decs), tdef, ldef, useTimer)
         IN  ApplyDec(inner.heap, inner.id, Head(decs), tdef, ldef, useTimer)

\* def name(...): the function object is made and the name bound to it.
DefBinding(h, g, name) ==
    LET a == Alloc(h, DefObject(name))
    IN  [heap |-> a.heap, globals |-> [g EXCEPT ![name] = a.id]]

\* name = dec(name): the name is looked up, dec applied, the name rebound.
RebindBinding(h, g, name, d, tdef, ldef, useTimer) ==
    LET r == ApplyDec(h, g[name], d, tdef, ldef, useTimer)
    IN  [heap |-> r.heap, globals |-> [g EXCEPT ![name] = r.id]]

\* @decs def name(...): the function object is made, the decorators applied
\* to it, and only the result is bound to the name.
DecoratedBinding(h, g, name, decs, tdef, ldef, useTimer) ==
    LET a == Alloc(h, DefObject(name))
        r == ApplyDecs(a.heap, a.id, decs, tdef, ldef, useTimer)
    IN  [heap |-> r.heap, globals |-> [g EXCEPT ![name] = r.id]]

InitOther ==
    /\ commands = [n \in {} |-> 0]
    /\ latest = [n \in {} |-> 0]
    /\ inp = <<>>

\* The session after the cells that define timer and log_result have run.
InitDecorators ==
    /\ heap = <<>>
    /\ globals = [n \in FuncDefs |-> 0]
    /\ timerDef = "plain"
    /\ logDef = "plain"
    /\ USE_TIMER = TRUE
    /\ cell = NoCell
    /\ InitOther

\* The cell "def timer(func): ..." as first written.
RunTimerCell ==
    /\ timerDef' = "plain"
    /\ cell' = [NoCell EXCEPT !.kind = "cell", !.name = "timer"]
    /\ UNCHANGED <<heap, globals, logDef, USE_TIMER, commands, latest, inp>>

\* The snippet "USE_TIMER = True; def timer(func): if not USE_TIMER: ...".
RunTimerFlagCell ==
    /\ timerDef' = "flag"
    /\ USE_TIMER' = TRUE
    /\ cell' = [NoCell EXCEPT !.kind = "cell", !.name = "timer"]
    /\ UNCHANGED <<heap, globals, logDef, commands, latest, inp>>

\* The cell "def log_result(func): ..." as first written.
RunLogResultCell ==
    /\ logDef' = "plain"
    /\ cell' = [NoCell EXCEPT !.kind = "cell", !.name = "log_result"]
    /\ UNCHANGED <<heap, globals, timerDef, USE_TIMER, commands, latest, inp>>

\* The cell that redefines timer and log_result with functools.wraps.
RunWrapsCell ==
    /\ timerDef' = "wraps"
    /\ logDef' = "wraps"
    /\ cell' = [NoCell EXCEPT !.kind = "cell", !.name = "wraps"]
    /\ UNCHANGED <<heap, globals, USE_TIMER, commands, latest, inp>>

\* USE_TIMER = b
SetUseTimer(b) ==
    /\ timerDef = "flag"
    /\ USE_TIMER' = b
    /\ cell' = [NoCell EXCEPT !.kind = "cell", !.name = "USE_TIMER"]
    /\ UNCHANGED <<heap, globals, timerDef, logDef, commands, latest, inp>>

\* def name(...): ...
Def(name) ==
    /\ Len(heap) < MaxObjs
    /\ LET b == DefBinding(heap, globals, name)
       IN  /\ heap' = b.heap
           /\ globals' = b.globals
    /\ cell' = [NoCell EXCEPT !.kind = "def", !.name = name]
    /\ UNCHANGED <<timerDef, logDef, USE_TIMER, commands, latest, inp>>

\* name = dec(name)
Rebind(name, d) ==
    /\ globals[name] # 0
    /\ Len(heap) < MaxObjs
    /\ IF DecRaises(d)
       THEN /\ cell' = [NoCell EXCEPT !.kind = "rebind", !.name = name,
                           !.decs = <<d>>, !.outcome = "raise",
                           !.exc = Exc("IndexError", 0)]
            /\ UNCHANGED <<heap, globals>>
       ELSE /\ LET b == RebindBinding(heap, globals, name, d, timerDef, logDef,
                                      USE_TIMER)
               IN  /\ heap' = b.heap
                   /\ globals' = b.globals
            /\ cell' = [NoCell EXCEPT !.kind = "rebind", !.name = name,
                           !.decs = <<d>>, !.outcome = "return"]
    /\ UNCHANGED <<timerDef, logDef, USE_TIMER, commands, latest, inp>>

\* @decs def name(...): ...   The decorator expressions are evaluated first:
\* when one raises, no function is made and the name is not bound.
DefDecorated(name, decs) ==
    /\ Len(heap) + 1 + Len(decs) <= MaxObjs
    /\ IF \E i \in 1..Len(decs) : DecRaises(decs[i])
       THEN /\ cell' = [NoCell EXCEPT !.kind = "decorated", !.name = name,
                           !.decs = decs, !.outcome = "raise",
                           !.exc = Exc("IndexError", 0)]
            /\ UNCHANGED <<heap, globals>>
       ELSE /\ LET b == DecoratedBinding(heap, globals, name, decs, timerDef,
                                         logDef, USE_TIMER)
               IN  /\ heap' = b.heap
                   /\ globals' = b.globals
            /\ cell' = [NoCell EXCEPT !.kind = "decorated", !.name = name,
                           !.decs = decs, !.outcome = "return"]
    /\ UNCHANGED <<timerDef, logDef, USE_TIMER, commands, latest, inp>>

\* name(*args, **kwargs), with what the call printed and how it ended
Call(name, args) ==
    /\ globals[name] # 0
    /\ \E r \in Outcomes(heap, globals[name], args) :
          cell' = [NoCell EXCEPT !.kind = "call", !.name = name,
                      !.target = globals[name], !.args = args,
                      !.events = r.events, !.outcome = r.outcome,
                      !.value = r.value, !.exc = r.exc]
    /\ UNCHANGED <<heap, globals, timerDef, logDef, USE_TIMER, commands, latest, inp>>

\* A cell that calls a function bound in the session.
CallCell == \E name \in FuncDefs, args \in ArgLists : Call(name, args)

\* The first section of the notebook: timer, the @ syntax and USE_TIMER.
TimerStacks == {<<Dec("timer", <<>>)>>, <<Dec("timer", <<>>), Dec("timer", <<>>)>>}

NextTimer ==
    \/ RunTimerCell
    \/ RunTimerFlagCell
    \/ \E b \in BOOLEAN : SetUseTimer(b)
    \/ \E name \in FuncDefs : Def(name)
    \/ \E name \in FuncDefs : Rebind(name, Dec("timer", <<>>))
    \/ \E name \in FuncDefs, decs \in TimerStacks : DefDecorated(name, decs)
    \/ CallCell

SpecTimer == InitDecorators /\ [][NextTimer]_vars

\* "Combining decorators": timer and log_result, without and with
\* functools.wraps.
CombineDecs == {Dec("timer", <<>>), Dec("log_result", <<>>)}
CombineStacks == {<<d>> : d \in CombineDecs} \cup {<<d, e>> : d, e \in CombineDecs}

NextCombine ==
    \/ RunTimerCell
    \/ RunLogResultCell
    \/ RunWrapsCell
    \/ \E name \in FuncDefs : Def(name)
    \/ \E name \in FuncDefs, d \in CombineDecs : Rebind(name, d)
    \/ \E name \in FuncDefs, decs \in CombineStacks : DefDecorated(name, decs)
    \/ CallCell

SpecCombine == InitDecorators /\ [][NextCombine]_vars

\* "Decorator factories": describe_as.
DescribeDecs == {Dec("describe_as", a) : a \in Adjectives}
DescribeStacks == {<<d>> : d \in DescribeDecs} \cup {<<d, e>> : d, e \in DescribeDecs}

NextDescribe ==
    \/ \E name \in FuncDefs : Def(name)
    \/ \E name \in FuncDefs, d \in DescribeDecs : Rebind(name, d)
    \/ \E name \in FuncDefs, decs \in DescribeStacks : DefDecorated(name, decs)
    \/ CallCell

SpecDescribe == InitDecorators /\ [][NextDescribe]_vars

(***************************************************************************)
(* The Robot of the appendix.                                              *)
(***************************************************************************)
\* The functions a robot session defines.
RobotDefs == {"sweep_the_floor", "do_taxes", "list_commands"}
\* The attribute names a robot session reads.
AttrNames == RobotDefs \cup {"tell_a_joke", "commands", "register_command"}

\* What Robot defines itself: __init__ sets self.commands, the class has the
\* methods.  __getattr__ is called only for a name not found among these.
InstanceAttrs == {"commands"}
ClassAttrs == {"__init__", "__getattr__", "register_command", "list_commands"}

DictVal == [t |-> "dict", v |-> 0]
MethodVal == [t |-> "method", v |-> 0]

\* A register_command that forgets to return func.
register_command_returns_none(cmds, h, func) ==
    [commands |-> [cmds EXCEPT ![h[func].name] = func], result |-> 0]

\* A register_command that keeps the first function registered under a name.
register_command_keeps_first(cmds, h, func) ==
    [commands |-> IF cmds[h[func].name] = 0
                  THEN [cmds EXCEPT ![h[func].name] = func] ELSE cmds,
     result |-> func]

\* def register_command(self, func):
\*     self.commands[func.__name__] = func; return func
register_command(cmds, h, func) ==
    [commands |-> [cmds EXCEPT ![h[func].name] = func], result |-> func]

\* def __getattr__(self, attr):
\*     command = self.commands.get(attr)
\*     if command is None: raise InvalidCommand(attr)
\*     return command
getattr_hook(cmds, attr) ==
    IF cmds[attr] = 0
    THEN [outcome |-> "raise", value |-> None, exc |-> ExcArg("InvalidCommand", attr)]
    ELSE [outcome |-> "return", value |-> FuncVal(cmds[attr]), exc |-> NoExc]

\* robot.attr: the instance, then the class, then __getattr__.
GetAttribute(cmds, attr) ==
    CASE attr \in InstanceAttrs ->
            [outcome |-> "return", value |-> DictVal, exc |-> NoExc]
      [] attr \in ClassAttrs ->
            [outcome |-> "return", value |-> MethodVal, exc |-> NoExc]
      [] OTHER -> getattr_hook(cmds, attr)

\* robot = Robot(): __init__ sets self.commands = {}
InitRobot ==
    /\ heap = <<>>
    /\ globals = [n \in RobotDefs |-> 0]
    /\ commands = [n \in AttrNames |-> 0]
    /\ latest = [n \in AttrNames |-> 0]
    /\ timerDef = "plain"
    /\ logDef = "plain"
    /\ USE_TIMER = TRUE
    /\ inp = <<>>
    /\ cell = NoCell

\* def name(): ...   in the robot's session, not registered
RobotDef(name) ==
    /\ Len(heap) < MaxRobotObjs
    /\ LET b == DefBinding(heap, globals, name)
       IN  /\ heap' = b.heap
           /\ globals' = b.globals
    /\ cell' = [NoCell EXCEPT !.kind = "def", !.name = name]
    /\ UNCHANGED <<timerDef, logDef, USE_TIMER, commands, latest, inp>>

\* @robot.register_command
\* def name(): ...
RegisterDecorated(name) ==
    /\ Len(heap) < MaxRobotObjs
    /\ LET a == Alloc(heap, DefObject(name))
           r == register_command(commands, a.heap, a.id)
       IN  /\ heap' = a.heap
           /\ commands' = r.commands
           /\ globals' = [globals EXCEPT ![name] = r.result]
           /\ latest' = [latest EXCEPT ![name] = a.id]
           /\ cell' = [NoCell EXCEPT !.kind = "register", !.name = name,
                          !.target = a.id, !.outcome = "return",
                          !.value = FuncVal(r.result)]
    /\ UNCHANGED <<timerDef, logDef, USE_TIMER, inp>>

\* robot.register_command(name), for a function already defined
RegisterCall(name) ==
    /\ globals[name] # 0
    /\ LET r == register_command(commands, heap, globals[name])
       IN  /\ commands' = r.commands
           /\ latest' = [latest EXCEPT ![heap[globals[name]].name] = globals[name]]
           /\ cell' = [NoCell EXCEPT !.kind = "register", !.name = name,
                          !.target = globals[name], !.outcome = "return",
                          !.value = FuncVal(r.result)]
    /\ UNCHANGED <<heap, globals, timerDef, logDef, USE_TIMER, inp>>

\* robot.attr
ReadAttr(attr) ==
    /\ LET r == GetAttribute(commands, attr)
       IN  cell' = [NoCell EXCEPT !.kind = "getattr", !.name = attr,
                       !.outcome = r.outcome, !.value = r.value, !.exc = r.exc]
    /\ UNCHANGED <<heap, globals, timerDef, logDef, USE_TIMER, commands, latest, inp>>

NextRobot ==
    \/ \E name \in RobotDefs : RobotDef(name)
    \/ \E name \in RobotDefs : RegisterDecorated(name)
    \/ \E name \in RobotDefs : RegisterCall(name)
    \/ \E attr \in AttrNames : ReadAttr(attr)

SpecRobot == InitRobot /\ [][NextRobot]_vars

(***************************************************************************)
(* The exceptions notebook: translating SuperConfusingError.               *)
(***************************************************************************)
\* The characters a line of input is made of.
Chars == {"-", "0", "1", "3", "x"}
Digits == {"0", "1", "3"}

RECURSIVE SeqsUpTo(_)
SeqsUpTo(n) ==
    IF n = 0 THEN {<<>>}
    ELSE LET shorter == SeqsUpTo(n - 1)
         IN  shorter \cup {Append(s, c) : s \in {t \in shorter : Len(t) = n - 1},
                                           c \in Chars}

Inputs == SeqsUpTo(MaxInputLen)

DigitValue(c) == CASE c = "0" -> 0 [] c = "1" -> 1 [] OTHER -> 3

\* The value of a run of decimal digits.
RECURSIVE DigitsValue(_)
DigitsValue(s) ==
    IF s = <<>> THEN 0
    ELSE 10 * DigitsValue(SubSeq(s, 1, Len(s) - 1)) + DigitValue(s[Len(s)])

AllDigits(s) == Len(s) > 0 /\ \A i \in 1..Len(s) : s[i] \in Digits

\* int(text): an optional sign and at least one digit, else ValueError.
IsIntLiteral(s) ==
    \/ AllDigits(s)
    \/ Len(s) > 1 /\ s[1] = "-" /\ AllDigits(Tail(s))

int(s) == IF s[1] = "-" THEN 0 - DigitsValue(Tail(s)) ELSE DigitsValue(s)

\* The number imported_function refuses.
Unacceptable == 3

Result(outcome, value, exc) == [outcome |-> outcome, value |-> value, exc |-> exc]

\* def imported_function(num):
\*     if num == 3: raise SuperConfusingError(...)
\*     return num * (num+1) // 2
imported_function(num) ==
    IF num = Unacceptable
    THEN Result("raise", None, ExcArg("SuperConfusingError", "sand worms"))
    ELSE Result("return", IntVal((num * (num + 1)) \div 2), NoExc)

\* raise new, while handled is being handled: Python sets __context__.
RaiseInHandler(new, handled) == [new EXCEPT !.context = <<handled>>]
\* raise new from cause: __cause__ is set and the context is suppressed.
RaiseFrom(new, cause) == [new EXCEPT !.cause = cause, !.suppress = TRUE]

\* int(input(...)) fails outside the try block.
InvalidLiteral == Result("raise", None, ExcArg("ValueError", "invalid literal for int()"))

NoGood == ExcArg("ValueError", "3 is no good.")

\* def user_function(msg): num = int(input(...))
\*     try: return imported_function(num)
\*     except SuperConfusingError: raise ValueError('3 is no good.')
user_function(text) ==
    IF ~IsIntLiteral(text) THEN InvalidLiteral
    ELSE LET r == imported_function(int(text))
         IN  IF r.outcome = "raise" /\ r.exc.type = "SuperConfusingError"
             THEN Result("raise", None, RaiseInHandler(NoGood, r.exc))
             ELSE r

\* ... except SuperConfusingError as e: raise ValueError('3 is no good.') from e
less_confusing_user_function(text) ==
    IF ~IsIntLiteral(text) THEN InvalidLiteral
    ELSE LET r == imported_function(int(text))
         IN  IF r.outcome = "raise" /\ r.exc.type = "SuperConfusingError"
             THEN Result("raise", None,
                         RaiseFrom(RaiseInHandler(NoGood, r.exc), <<r.exc>>))
             ELSE r

\* A clean_user_function that forgets "from None".
clean_user_function_no_from(text) ==
    IF ~IsIntLiteral(text) THEN InvalidLiteral
    ELSE LET r == imported_function(int(text))
         IN  IF r.outcome = "raise" /\ r.exc.type = "SuperConfusingError"
             THEN Result("raise", None, RaiseInHandler(NoGood, r.exc))
             ELSE r

\* ... except SuperConfusingError: raise ValueError('3 is no good.') from None
clean_user_function(text) ==
    IF ~IsIntLiteral(text) THEN InvalidLiteral
    ELSE LET r == imported_function(int(text))
         IN  IF r.outcome = "raise" /\ r.exc.type = "SuperConfusingError"
             THEN Result("raise", None,
                         RaiseFrom(RaiseInHandler(NoGood, r.exc), <<>>))
             ELSE r

\* What the traceback shows before the exception itself: its cause, else its
\* context unless suppressed.
Shown(exc) ==
    CASE exc.cause # <<>> -> [how |-> "cause", what |-> exc.cause]
      [] exc.context # <<>> /\ ~exc.suppress -> [how |-> "context", what |-> exc.context]
      [] OTHER -> [how |-> "nothing", what |-> <<>>]

UserFunctions == {"user_function", "less_confusing_user_function", "clean_user_function"}

\* The user has typed a line at the prompt of the cell about to run.
InitExceptions ==
    /\ heap = <<>>
    /\ globals = [n \in {} |-> 0]
    /\ commands = [n \in {} |-> 0]
    /\ latest = [n \in {} |-> 0]
    /\ timerDef = "plain"
    /\ logDef = "plain"
    /\ USE_TIMER = TRUE
    /\ inp \in Inputs
    /\ cell = NoCell

\* The cell calls fn, which reads the line and ends as r.
RunCell(fn, r) ==
    /\ cell' = [NoCell EXCEPT !.kind = "call", !.name = fn, !.outcome = r.outcome,
                   !.value = r.value, !.exc = r.exc]
    /\ UNCHANGED <<heap, globals, timerDef, logDef, USE_TIMER, commands, latest, inp>>

RunUserFunction == RunCell("user_function", user_function(inp))

RunLessConfusing ==
    RunCell("less_confusing_user_function", less_confusing_user_function(inp))

RunClean == RunCell("clean_user_function", clean_user_function(inp))

NextExceptions ==
    \/ RunUserFunction
    \/ RunLessConfusing
    \/ RunClean

SpecExceptions == InitExceptions /\ [][NextExceptions]_vars

(***************************************************************************)
(* The exceptions notebook: the reciprocal functions.                      *)
(***************************************************************************)
\* A line printed from a string literal.
Literal(text) == [NoLine EXCEPT !.tmpl = text]
\* print(1/num): the float 1/num, kept as its denominator.
Reciprocal(num) == [t |-> "float", v |-> num]
QuotientLine(num) == [NoLine EXCEPT !.tmpl = "quotient", !.val = Reciprocal(num)]

\* input(f'{msg}: ') shows the prompt and reads the line.
InputEv == [NoEvent EXCEPT !.ev = "input"]

\* The local names of a reciprocal function once num has been assigned.
ReciprocalLocals == {"msg", "num"}

\* The body of the try block, dividing 1 by the variable written as name:
\*     num = int(input(f'{msg}: '))
\*     print(1/<name>)
\* The name is looked up among the locals and then the session's globals,
\* before the division is made.
ReciprocalTry(text, name, globalNames) ==
    IF ~IsIntLiteral(text)
    THEN Raised(<<InputEv>>, InvalidLiteral.exc, 0)
    ELSE IF name \notin ReciprocalLocals \cup globalNames
    THEN Raised(<<InputEv>>, ExcArg("NameError", name), 0)
    ELSE IF int(text) = 0
    THEN Raised(<<InputEv>>, ExcArg("ZeroDivisionError", "division by zero"), 0)
    ELSE Returned(<<InputEv, PrintEv(0, QuotientLine(int(text)))>>, None, 0)

\* The handler prints its line and the function ends normally.
Handled(r, text) == Returned(Append(r.events, PrintEv(0, Literal(text))), None, 0)

\* def reciprocal2(msg): try: ... print(1/num)
\*     except: print('Invalid input!')
reciprocal2(text, globalNames) ==
    LET r == ReciprocalTry(text, "num", globalNames)
    IN  IF r.outcome = "raise" THEN Handled(r, "Invalid input!") ELSE r

\* def bad_reciprocal(msg): try: ... print(1/nun)
\*     except: print('Invalid input!')
bad_reciprocal(text, globalNames) ==
    LET r == ReciprocalTry(text, "nun", globalNames)
    IN  IF r.outcome = "raise" THEN Handled(r, "Invalid input!") ELSE r

\* A less_bad_reciprocal whose print statement spells num correctly.
less_bad_reciprocal_spelt_num(text, globalNames) ==
    LET r == ReciprocalTry(text, "num", globalNames)
    IN  CASE r.outcome = "raise" /\ r.exc.type = "ValueError" ->
                 Handled(r, "Invalid input!")
          [] r.outcome = "raise" /\ r.exc.type = "ZeroDivisionError" ->
                 Handled(r, "Cannot divide by 0!")
          [] OTHER -> r

\* def less_bad_reciprocal(msg): try: ... print(1/nun)
\*     except ValueError: print('Invalid input!')
\*     except ZeroDivisionError: print('Cannot divide by 0!')
less_bad_reciprocal(text, globalNames) ==
    LET r == ReciprocalTry(text, "nun", globalNames)
    IN  CASE r.outcome = "raise" /\ r.exc.type = "ValueError" ->
                 Handled(r, "Invalid input!")
          [] r.outcome = "raise" /\ r.exc.type = "ZeroDivisionError" ->
                 Handled(r, "Cannot divide by 0!")
          [] OTHER -> r

ReciprocalFunctions == {"reciprocal2", "bad_reciprocal", "less_bad_reciprocal"}

\* The cell calls fn, which prompts, reads the line and ends as r.
RunReciprocalCell(fn, r) ==
    /\ cell' = [NoCell EXCEPT !.kind = "call", !.name = fn, !.events = r.events,
                   !.outcome = r.outcome, !.value = r.value, !.exc = r.exc]
    /\ UNCHANGED <<heap, globals, timerDef, logDef, USE_TIMER, commands, latest, inp>>

RunReciprocal2 == RunReciprocalCell("reciprocal2", reciprocal2(inp, DOMAIN globals))

RunBadReciprocal ==
    RunReciprocalCell("bad_reciprocal", bad_reciprocal(inp, DOMAIN globals))

RunLessBadReciprocal ==
    RunReciprocalCell("less_bad_reciprocal", less_bad_reciprocal(inp, DOMAIN globals))

NextReciprocal ==
    \/ RunReciprocal2
    \/ RunBadReciprocal
    \/ RunLessBadReciprocal

\* The session defines no global named nun; the user has typed a line.
SpecReciprocal == InitExceptions /\ [][NextReciprocal]_vars

(***************************************************************************)
(* Reading a call's trace.                                                 *)
(***************************************************************************)
\* The positions in trace E of the events of kind ev of function object fn.
EventsOf(E, ev, fn) == {i \in 1..Len(E) : E[i].ev = ev /\ E[i].fn = fn}
\* The positions of the lines of template tmpl, whoever printed them.
LinesOf(E, tmpl) == {i \in 1..Len(E) : E[i].ev = "print" /\ E[i].line.tmpl = tmpl}
\* The one element of a set of one.
The(S) == CHOOSE x \in S : TRUE

CalledOnceWith(E, fn, args) ==
    /\ Cardinality(EventsOf(E, "call", fn)) = 1
    /\ \A i \in EventsOf(E, "call", fn) : E[i].args = args

(***************************************************************************)
(* C1.  A call of timer(func) with any positional and keyword arguments    *)
(* calls func exactly once with exactly those arguments; when func has     *)
(* returned, the wrapper prints exactly one "Running <name> took           *)
(* <duration> seconds." line, after func's return, naming func, and        *)
(* returns the value func returned.                                        *)
(***************************************************************************)
C1_TimerReportsAndReturns ==
    (cell.kind = "call" /\ heap[cell.target].kind \in TimerKinds) =>
        LET w == cell.target
            func == heap[w].func
            E == cell.events
            rets == EventsOf(E, "return", func)
            prints == EventsOf(E, "print", w)
        IN  /\ CalledOnceWith(E, func, cell.args)
            /\ rets # {} =>
                 /\ Cardinality(rets) = 1
                 /\ Cardinality(prints) = 1
                 /\ The(rets) < The(prints)
                 /\ E[The(prints)].line.tmpl = "took"
                 /\ heap[w].kind = "timer" =>
                        E[The(prints)].line.name = heap[func].name
                 /\ heap[w].kind = "timer_flag" => E[The(prints)].line.ref = func
                 /\ cell.outcome = "return"
                 /\ cell.value = E[The(rets)].val

\* timed slow_add(2, y=3) has returned 5.
C1_Witness ==
    /\ cell.kind = "call"
    /\ heap[cell.target].kind = "timer"
    /\ heap[heap[cell.target].func].kind = "def"
    /\ cell.args.kw # {}
    /\ cell.outcome = "return"
    /\ cell.value = IntVal(5)

(***************************************************************************)
(* C2.  When the wrapped callable raises, the wrapper made by timer or by  *)
(* log_result raises that same exception to its caller, prints no line     *)
(* and returns no value.                                                   *)
(***************************************************************************)
C2_ExceptionPropagates ==
    (cell.kind = "call" /\ heap[cell.target].kind \in TimerKinds \cup {"log_result"}) =>
        LET w == cell.target
            func == heap[w].func
            E == cell.events
            raises == EventsOf(E, "raise", func)
        IN  raises # {} =>
              /\ cell.outcome = "raise"
              /\ \A i \in raises : cell.exc = E[i].exc
              /\ EventsOf(E, "print", w) = {}
              /\ EventsOf(E, "return", w) = {}
              /\ cell.value = None

\* @timer @log_result slow_add called as slow_add(-2, 1): time.sleep(-1)
\* raises ValueError through both wrappers.
C2_Witness ==
    /\ cell.kind = "call"
    /\ heap[cell.target].kind = "timer"
    /\ heap[heap[cell.target].func].kind = "log_result"
    /\ cell.outcome = "raise"
    /\ cell.exc.type = "ValueError"

(***************************************************************************)
(* describe_as.                                                            *)
(***************************************************************************)
\* The article the sentence is to carry for an adjective.
ExpectedArticle(adjective) ==
    IF adjective[1] \in {"a", "e", "i", "o", "u"} THEN "an" ELSE "a"

\* A call of a wrapper made by describe_as prints exactly one sentence
\* "<func name> is <article> <adjective> function." before func is called,
\* calls func once with the same arguments and returns what func returns.
C3_DescribedCalls ==
    (cell.kind = "call" /\ heap[cell.target].kind = "describe_as") =>
        LET w == cell.target
            func == heap[w].func
            E == cell.events
            prints == EventsOf(E, "print", w)
            rets == EventsOf(E, "return", func)
        IN  /\ Cardinality(prints) = 1
            /\ E[The(prints)].line =
                   IsLine(heap[func].name, ExpectedArticle(heap[w].adj), heap[w].adj)
            /\ CalledOnceWith(E, func, cell.args)
            /\ The(prints) < The(EventsOf(E, "call", func))
            /\ rets # {} => /\ cell.outcome = "return"
                            /\ cell.value = E[The(rets)].val

\* The cell just run applied describe_as(adjective) as the topmost decorator.
Described(c, adjective) ==
    /\ c.kind \in {"decorated", "rebind"}
    /\ Head(c.decs) = Dec("describe_as", adjective)

\* describe_as(adjective)(func) is a wrapper of func that carries the
\* adjective it was given.
C3_FactoryStep ==
    \A a \in Adjectives :
        (Described(cell', a) /\ Len(a) > 0
            /\ \A i \in 1..Len(cell'.decs) : ~DecRaises(cell'.decs[i])) =>
            LET w == globals'[cell'.name]
            IN  /\ cell'.outcome = "return"
                /\ w = Len(heap')
                /\ heap'[w].kind = "describe_as"
                /\ heap'[w].adj = a
                /\ heap'[w].func = IF Len(cell'.decs) = 1 /\ cell'.kind = "rebind"
                                   THEN globals[cell'.name] ELSE w - 1

(***************************************************************************)
(* C3 as stated: for every adjective string, describe_as(adjective)(func)  *)
(* prints its one sentence before func on each call.  Refuted by the empty *)
(* adjective, for which describe_as raises IndexError.                     *)
(***************************************************************************)
C3_EveryAdjective ==
    /\ \A a \in Adjectives : Described(cell, a) => cell.outcome = "return"
    /\ C3_DescribedCalls

(***************************************************************************)
(* C3 amended.  For every non-empty adjective string and every function    *)
(* func, describe_as(adjective)(func) is a wrapper each call of which      *)
(* prints exactly one sentence "<func name> is <article> <adjective>       *)
(* function." before func is called, with article "an" when the            *)
(* adjective's first character is one of a, e, i, o, u and "a" otherwise,  *)
(* and then returns func's result for the same arguments.                  *)
(***************************************************************************)
C3_NonEmptyAdjective == []C3_DescribedCalls /\ [][C3_FactoryStep]_vars

\* @describe_as('annoying') on a function that has then been called and
\* has returned.
C3_Witness ==
    /\ cell.kind = "call"
    /\ heap[cell.target].kind = "describe_as"
    /\ heap[cell.target].adj = annoying
    /\ heap[cell.target].art = "an"
    /\ cell.outcome = "return"

(***************************************************************************)
(* The @ syntax.                                                           *)
(***************************************************************************)
\* What a caller sees of a call: the lines printed, in order, and how the
\* call ended.
Observable(r) ==
    [lines |-> [i \in 1..Cardinality({j \in 1..Len(r.events) : r.events[j].ev = "print"})
                  |-> LET idx == {j \in 1..Len(r.events) : r.events[j].ev = "print"}
                          \* the i-th print, in order
                          k == CHOOSE j \in idx :
                                   Cardinality({m \in idx : m <= j}) = i
                      IN  r.events[k].line],
     outcome |-> r.outcome, value |-> r.value, exc |-> r.exc]

TimerDec == Dec("timer", <<>>)
LogResultDec == Dec("log_result", <<>>)

\* timer, as bound now, returns a new_func and not its argument.
TimerWraps == timerDef # "flag" \/ USE_TIMER

(***************************************************************************)
(* C4.  "@timer def f" leaves the session as "def f" followed by           *)
(* "f = timer(f)" would: the name is bound to timer's wrapper of the       *)
(* original function and not to the original, and every call through the   *)
(* name prints and returns what a call of timer(original) does.            *)
(***************************************************************************)
C4_DecoratedStep ==
    (cell'.kind = "decorated" /\ cell'.decs = <<TimerDec>>) =>
        LET name == cell'.name
            original == Len(heap) + 1
            a == DefBinding(heap, globals, name)
            b == RebindBinding(a.heap, a.globals, name, TimerDec, timerDef, logDef,
                               USE_TIMER)
            direct == timer(heap', original, timerDef, USE_TIMER)
        IN  /\ heap' = b.heap
            /\ globals' = b.globals
            /\ TimerWraps => /\ globals'[name] # original
                             /\ heap'[globals'[name]].kind \in TimerKinds
                             /\ heap'[globals'[name]].func = original
            /\ \A args \in ArgLists :
                  {Observable(r) : r \in Outcomes(heap', globals'[name], args)}
                      = {Observable(r) : r \in Outcomes(direct.heap, direct.id, args)}

C4_DecoratorSyntaxIsRebinding == [][C4_DecoratedStep]_vars

\* "@timer def slow_add" has just run, and slow_add is the wrapper.
C4_Witness ==
    /\ cell.kind = "decorated"
    /\ cell.decs = <<TimerDec>>
    /\ cell.name = "slow_add"
    /\ heap[globals["slow_add"]].kind = "timer"
    /\ heap[heap[globals["slow_add"]].func].kind = "def"

(***************************************************************************)
(* Stacked decorators.                                                     *)
(***************************************************************************)
\* h[w] is timer's wrapper of log_result's wrapper of a def-made function.
TimedLogged(h, w) ==
    /\ h[w].kind = "timer"
    /\ h[h[w].func].kind = "log_result"
    /\ h[h[h[w].func].func].kind = "def"

\* On a call of timer(log_result(f)): f runs once; when it returns, the
\* "<name> returned <value>." line follows f's return and precedes the
\* "Running <name> took ..." line, and the value returned to the caller is
\* the value f returned and the value the log line shows.
C5_StackedCalls ==
    (cell.kind = "call" /\ TimedLogged(heap, cell.target)) =>
        LET t == cell.target
            l == heap[t].func
            f == heap[l].func
            E == cell.events
            rets == EventsOf(E, "return", f)
        IN  /\ CalledOnceWith(E, f, cell.args)
            /\ rets # {} =>
                 /\ Cardinality(LinesOf(E, "returned")) = 1
                 /\ Cardinality(LinesOf(E, "took")) = 1
                 /\ The(rets) < The(LinesOf(E, "returned"))
                 /\ The(LinesOf(E, "returned")) < The(LinesOf(E, "took"))
                 /\ cell.outcome = "return"
                 /\ cell.value = E[The(rets)].val
                 /\ E[The(LinesOf(E, "returned"))].line.val = E[The(rets)].val

\* "@timer @log_result def f" binds f to timer(log_result(f)).
C5_StackedStep ==
    (cell'.kind = "decorated" /\ cell'.decs = <<TimerDec, LogResultDec>>) =>
        LET name == cell'.name
            a == Alloc(heap, DefObject(name))
            l == log_result(a.heap, a.id, logDef)
            t == timer(l.heap, l.id, timerDef, USE_TIMER)
        IN  /\ heap' = t.heap
            /\ globals' = [globals EXCEPT ![name] = t.id]
            /\ TimerWraps => TimedLogged(heap', globals'[name])

(***************************************************************************)
(* C5.  Stacking @timer above @log_result on f is timer(log_result(f)):    *)
(* on each call f runs exactly once, the "returned" line is printed after  *)
(* f returns and before the "took" line, and the caller gets the value f   *)
(* returned, which is the value the log line shows.                        *)
(***************************************************************************)
C5_TimerAboveLogResult == []C5_StackedCalls /\ [][C5_StackedStep]_vars

\* The stacked slow_random_number has been called and has returned.
C5_Witness ==
    /\ cell.kind = "call"
    /\ cell.name = "slow_random_number"
    /\ TimedLogged(heap, cell.target)
    /\ cell.outcome = "return"
    /\ cell.value.t = "int"
    /\ Cardinality(LinesOf(cell.events, "took")) = 1

C6_AppliesFlagTimer ==
    /\ timerDef = "flag"
    /\ cell'.kind \in {"decorated", "rebind"}
    /\ cell'.decs = <<TimerDec>>

\* The function timer was applied to in that cell.
C6_Undecorated ==
    IF cell'.kind = "decorated" THEN Len(heap) + 1 ELSE globals[cell'.name]

\* timer reads USE_TIMER when it is applied: off, it hands back the
\* function it was given; on, a new_func around it.
C6_DecorateStep ==
    C6_AppliesFlagTimer =>
        IF USE_TIMER
        THEN /\ heap'[globals'[cell'.name]].kind = "timer_flag"
             /\ heap'[globals'[cell'.name]].func = C6_Undecorated
        ELSE /\ globals'[cell'.name] = C6_Undecorated
             /\ Len(heap') = IF cell'.kind = "decorated" THEN Len(heap) + 1 ELSE Len(heap)
             /\ \A args \in ArgLists :
                   {Observable(r) : r \in Outcomes(heap', globals'[cell'.name], args)}
                       = {Observable(r) : r \in Outcomes(heap', C6_Undecorated, args)}

\* A new_func made while USE_TIMER was on reports whatever USE_TIMER is now;
\* a function that no decorator wrapped prints no timing line.
C6_Calls ==
    /\ (cell.kind = "call" /\ heap[cell.target].kind = "timer_flag"
            /\ cell.outcome = "return") =>
           Cardinality(EventsOf(cell.events, "print", cell.target)) = 1
    /\ (cell.kind = "call" /\ heap[cell.target].kind = "def") =>
           LinesOf(cell.events, "took") = {}

C9_Names(h, w, tmpl) ==
    UNION {{r.events[i].line.name : i \in LinesOf(r.events, tmpl)} :
             r \in {o \in UNION {Outcomes(h, w, args) : args \in ArgLists} :
                       o.outcome = "return"}}

\* One decorator alone: its wrapper is named new_func without wraps, and as
\* the function with wraps.
C9_SingleStep ==
    (cell'.kind = "decorated" /\ Len(cell'.decs) = 1) =>
        LET name == cell'.name
            def == IF cell'.decs = <<TimerDec>> THEN timerDef ELSE logDef
        IN  /\ def = "plain" => heap'[globals'[name]].name = "new_func"
            /\ def = "wraps" => heap'[globals'[name]].name = name

\* @timer above @log_result: without wraps the timing line names new_func
\* and the log line the function; with wraps both name the function.
C9_StackedStep ==
    (cell'.kind = "decorated" /\ cell'.decs = <<TimerDec, LogResultDec>>) =>
        LET name == cell'.name
            w == globals'[name]
        IN  /\ C9_Names(heap', w, "returned") = {name}
            /\ (timerDef = "plain" /\ logDef = "plain") =>
                   C9_Names(heap', w, "took") = {"new_func"}
            /\ (timerDef = "wraps" /\ logDef = "wraps") =>
                   C9_Names(heap', w, "took") = {name}

(***************************************************************************)
(* C9.  Defined without functools.wraps, timer and log_result each return  *)
(* a wrapper named new_func, so under "@timer @log_result" the timing line *)
(* names new_func while the log line names the original function; defined  *)
(* with functools.wraps(func), the wrapper carries func's name and both    *)
(* lines name the original function.                                       *)
(***************************************************************************)
C9_WrapsKeepsName == [][C9_SingleStep /\ C9_StackedStep]_vars

\* The stacked slow_random_number, made with wraps, has been called: its
\* timing line names slow_random_number.
C9_Witness ==
    /\ cell.kind = "call"
    /\ TimedLogged(heap, cell.target)
    /\ heap[cell.target].name = "slow_random_number"
    /\ \E i \in LinesOf(cell.events, "took") :
          cell.events[i].line.name = "slow_random_number"
    /\ \E i \in LinesOf(cell.events, "returned") :
          cell.events[i].line.name = "slow_random_number"

(***************************************************************************)
(* Robot.register_command and Robot.__getattr__.                           *)
(***************************************************************************)
\* A cell that registered the function object cell'.target: the call
\* returns that very object, no function object changes, the decorated name
\* refers to it, and commands changes at the function's name only.
C7_RegisterStep ==
    cell'.kind = "register" =>
        LET func == cell'.target
        IN  /\ cell'.value = FuncVal(func)
            /\ \A i \in 1..Len(heap) : heap'[i] = heap[i]
            /\ heap'[func] = IF func <= Len(heap) THEN heap[func]
                             ELSE DefObject(cell'.name)
            /\ Len(heap') = IF func <= Len(heap) THEN Len(heap) ELSE Len(heap) + 1
            /\ globals'[cell'.name] = func
            /\ \A n \in RobotDefs \ {cell'.name} : globals'[n] = globals[n]
            /\ commands'[heap'[func].name] = func
            /\ \A n \in AttrNames \ {heap'[func].name} : commands'[n] = commands[n]

(***************************************************************************)
(* C7.  register_command(func) returns the very function object it was     *)
(* given, unmodified, and its only effect is to store func in commands     *)
(* under func's name: the decorated name still refers to the original      *)
(* function and no other entry of commands changes.                        *)
(***************************************************************************)
C7_RegisterReturnsSameFunction == [][C7_RegisterStep]_vars

\* do_taxes has just been registered beside an earlier command.
C7_Witness ==
    /\ cell.kind = "register"
    /\ cell.name = "do_taxes"
    /\ commands["do_taxes"] = cell.target
    /\ globals["do_taxes"] = cell.target
    /\ commands["sweep_the_floor"] # 0

OtherwiseDefined(attr) == attr \in InstanceAttrs \cup ClassAttrs

\* Reading a name that was never registered and that Robot does not define
\* raises InvalidCommand carrying the name.
C8_Unregistered ==
    (cell.kind = "getattr" /\ latest[cell.name] = 0 /\ ~OtherwiseDefined(cell.name)) =>
        /\ cell.outcome = "raise"
        /\ cell.exc = ExcArg("InvalidCommand", cell.name)

\* Reading an attribute changes neither commands nor any function.
C8_ReadStep ==
    cell'.kind = "getattr" => commands' = commands /\ heap' = heap

(***************************************************************************)
(* C8 as stated: for every registered function f, the robot attribute      *)
(* named as f is the function last registered under that name.  Refuted    *)
(* by a function named as something Robot itself defines: list_commands.   *)
(***************************************************************************)
C8_EveryRegisteredName ==
    /\ (cell.kind = "getattr" /\ latest[cell.name] # 0) =>
           /\ cell.outcome = "return"
           /\ cell.value = FuncVal(latest[cell.name])
    /\ C8_Unregistered

\* The same, for the names Robot does not define itself.
C8_Registered ==
    (cell.kind = "getattr" /\ latest[cell.name] # 0 /\ ~OtherwiseDefined(cell.name)) =>
        /\ cell.outcome = "return"
        /\ cell.value = FuncVal(latest[cell.name])

(***************************************************************************)
(* C8 amended.  After any sequence of register_command calls, for every    *)
(* registered function f whose name is not otherwise defined on the robot  *)
(* (commands, register_command, list_commands, ...), the robot attribute   *)
(* named as f is the function most recently registered under that name.    *)
(* Reading a name that was never registered and is not otherwise defined   *)
(* raises InvalidCommand carrying that name and leaves commands unchanged. *)
(***************************************************************************)
C8_LatestRegisteredOrInvalid ==
    /\ [](C8_Registered /\ C8_Unregistered)
    /\ [][C8_ReadStep]_vars

\* sweep_the_floor was registered twice and the attribute is the second.
C8_Witness ==
    /\ cell.kind = "getattr"
    /\ cell.name = "sweep_the_floor"
    /\ cell.outcome = "return"
    /\ \E i \in 1..Len(heap) :
          /\ heap[i].name = "sweep_the_floor"
          /\ i < latest["sweep_the_floor"]
          /\ cell.value = FuncVal(latest["sweep_the_floor"])

(***************************************************************************)
(* C10.  For an integer input of 3, user_function,                         *)
(* less_confusing_user_function and clean_user_function each raise         *)
(* ValueError('3 is no good.') and never SuperConfusingError; the          *)
(* ValueError has no cause and shows the original error as its context in  *)
(* user_function, has the caught SuperConfusingError as its cause in       *)
(* less_confusing_user_function, and has no cause and a suppressed context *)
(* in clean_user_function.  For every other integer input all three        *)
(* return num*(num+1)//2.                                                  *)
(***************************************************************************)
C10_TranslatesTheError ==
    (cell.kind = "call" /\ cell.name \in UserFunctions /\ IsIntLiteral(inp)) =>
        LET num == int(inp)
            sce == ExcArg("SuperConfusingError", "sand worms")
        IN  IF num = 3
            THEN /\ cell.outcome = "raise"
                 /\ cell.exc.type = "ValueError"
                 /\ cell.exc.arg = "3 is no good."
                 /\ cell.name = "user_function" =>
                        /\ cell.exc.cause = <<>>
                        /\ Shown(cell.exc) = [how |-> "context", what |-> <<sce>>]
                 /\ cell.name = "less_confusing_user_function" =>
                        /\ cell.exc.cause = <<sce>>
                        /\ Shown(cell.exc) = [how |-> "cause", what |-> <<sce>>]
                 /\ cell.name = "clean_user_function" =>
                        /\ cell.exc.cause = <<>>
                        /\ cell.exc.suppress
                        /\ Shown(cell.exc) = [how |-> "nothing", what |-> <<>>]
            ELSE /\ cell.outcome = "return"
                 /\ cell.value = IntVal((num * (num + 1)) \div 2)

\* clean_user_function has raised for the input "03".
C10_Witness ==
    /\ cell.kind = "call"
    /\ cell.name = "clean_user_function"
    /\ inp = <<"0", "3">>
    /\ cell.outcome = "raise"
    /\ cell.exc.arg = "3 is no good."

(***************************************************************************)
(* The reciprocal functions.                                               *)
(***************************************************************************)
\* The literal lines the call of the cell printed, in order.
PrintedBy(c) ==
    LET idx == {i \in 1..Len(c.events) : c.events[i].ev = "print"}
    IN  [k \in 1..Cardinality(idx) |->
            c.events[CHOOSE i \in idx : Cardinality({j \in idx : j <= i}) = k].line.tmpl]

\* less_bad_reciprocal on a line int() rejects: one 'Invalid input!' and a
\* normal return.  On a line int() accepts, zero included: nothing printed
\* and the NameError for nun reaches the caller, raised outside any handler.
C11_LessBad ==
    (cell.kind = "call" /\ cell.name = "less_bad_reciprocal") =>
        /\ ~IsIntLiteral(inp) =>
              /\ PrintedBy(cell) = <<"Invalid input!">>
              /\ cell.outcome = "return"
              /\ cell.value = None
        /\ IsIntLiteral(inp) =>
              /\ PrintedBy(cell) = <<>>
              /\ cell.outcome = "raise"
              /\ cell.exc = ExcArg("NameError", "nun")
        /\ \A i \in 1..Len(PrintedBy(cell)) : PrintedBy(cell)[i] # "Cannot divide by 0!"

\* bad_reciprocal on any line: one 'Invalid input!' and a normal return.
C11_Bad ==
    (cell.kind = "call" /\ cell.name = "bad_reciprocal") =>
        /\ PrintedBy(cell) = <<"Invalid input!">>
        /\ cell.outcome = "return"
        /\ cell.value = None

(***************************************************************************)
(* C11.  less_bad_reciprocal prints 'Invalid input!' and returns normally  *)
(* for a non-integer input; for every integer input, zero included, the    *)
(* NameError from the misspelt variable nun propagates to the caller with  *)
(* nothing printed, and 'Cannot divide by 0!' is never printed.            *)
(* bad_reciprocal, with its catch-all except, prints 'Invalid input!' and  *)
(* returns normally for every input, valid integers included.              *)
(***************************************************************************)
C11_SpecificExceptsExposeTypo == C11_LessBad /\ C11_Bad

\* less_bad_reciprocal has raised NameError for the input "0".
C11_Witness ==
    /\ cell.kind = "call"
    /\ cell.name = "less_bad_reciprocal"
    /\ inp = <<"0">>
    /\ cell.outcome = "raise"
    /\ cell.exc.type = "NameError"

====
